---- MODULE Spec2Model ----
(***************************************************************************)
(* Model of src/lib/tokens-group-by-phrasal-verb.js: the scan that finds   *)
(* phrasal verbs in a list of part-of-speech-tagged tokens and replaces    *)
(* each confirmed phrase by one compound token.                            *)
(*                                                                         *)
(* Tokens are JavaScript objects, so the model keeps a heap: heap[id] is   *)
(* the object with reference id, and every list (tokens, result, a         *)
(* compound's constituents) holds references.  An optional field is <<>>   *)
(* when absent and <<v>> when it holds v.  Strings are strings.            *)
(* The async function is cut at its await points: one action runs the      *)
(* code from one suspension (or the start of a loop iteration) to the next.*)
(***************************************************************************)
EXTENDS Integers, Sequences, FiniteSets, TLC

VARIABLES
  heap,               \* the token objects, by reference
  tokens,             \* parameter tokens: the input list (references)
  options,            \* parameter options, defaults already applied
  result,             \* const result = []
  frequency,          \* const frequency = {}: entries in insertion order
  currentTokenIndex,  \* let currentTokenIndex = 0
  verbIndex,          \* let verbIndex = -1
  phrasalVerbTokens,  \* let phrasalVerbTokens (filtered candidate)
  phrasalVerbLemma,   \* const phrasalVerbLemma
  extractedTokens,    \* const extractedTokens
  phrasalVerbToken,   \* let phrasalVerbToken (a one-element list)
  pc,                 \* where the function stands
  returned,           \* what the caller has received: "none", "value", "error"
  calls,              \* history: the collaborator calls made, with their answers
  triggers,           \* history: the closing triggers seen
  merges,             \* history: the merges completed
  pass,               \* history: which run of the pass this is
  parked              \* the locals of a second, suspended call; <<>> if none

vars == <<heap, tokens, options, result, frequency, currentTokenIndex, verbIndex,
          phrasalVerbTokens, phrasalVerbLemma, extractedTokens, phrasalVerbToken,
          pc, returned, calls, triggers, merges, pass, parked>>

---------------------------------------------------------------------------
(* Bounds of the model. *)

\* longest input list of the specification Spec
MaxLen == 3
\* longest input list of the specifications SpecLong and SpecRerun
MaxLongLen == 5
\* how many times SpecRerun runs the pass, each on the output of the last
MaxPasses == 2
\* longest input list of each of the two concurrent calls of SpecTwin
MaxTwinLen == 4

---------------------------------------------------------------------------
(* Inputs. *)

\* The words the upstream tokenizer hands over: surface text, normalised
\* text, lemma and part-of-speech tag.
Words ==
  { [value |-> "Looked", normal |-> "looked", lemma |-> "look", pos |-> "VBD"],
    [value |-> "it",     normal |-> "it",     lemma |-> "it",   pos |-> "PRP"],
    [value |-> "up",     normal |-> "up",     lemma |-> "up",   pos |-> "RP"],
    [value |-> "in",     normal |-> "in",     lemma |-> "in",   pos |-> "IN"] }

\* The words of the long single-context inputs.
LongWords ==
  { [value |-> "come", normal |-> "come", lemma |-> "come", pos |-> "VB"],
    [value |-> "it",   normal |-> "it",   lemma |-> "it",   pos |-> "PRP"],
    [value |-> "up",   normal |-> "up",   lemma |-> "up",   pos |-> "RP"],
    [value |-> "in",   normal |-> "in",   lemma |-> "in",   pos |-> "IN"] }

\* The words of the inputs of two concurrent calls.
TwinWords ==
  { [value |-> "come", normal |-> "come", lemma |-> "come", pos |-> "VB"],
    [value |-> "up",   normal |-> "up",   lemma |-> "up",   pos |-> "RP"] }

Contexts == {1, 2}

\* The token object at input position i (1-based): word w in context ctx,
\* with the offsets the upstream offset stage gave it.
InputToken(w, ctx, i) ==
  [ value |-> w.value, normal |-> w.normal, lemma |-> w.lemma, pos |-> w.pos,
    tag |-> "word", contextId |-> ctx,
    startOffset |-> <<3 * (i - 1)>>, endOffset |-> <<3 * (i - 1) + 2>>,
    tokens |-> <<>>, frequency |-> <<>>, definition |-> <<>>, rank |-> <<>> ]

\* The options object after the defaults of the parameter list.
OptionSets ==
  [ wordsRank : {"null", "table"}, withDefinitions : BOOLEAN,
    skipDefinitionPointers : {TRUE}, withOffset : BOOLEAN, withFrequency : BOOLEAN ]

\* The options of the long inputs: withOffset keeps its default.
LongOptionSets == {o \in OptionSets : o.withOffset}

---------------------------------------------------------------------------
(* Array helpers. *)

Min(a, b) == IF a <= b THEN a ELSE b

\* Array.prototype.pop / shift, as used on extractedTokens: the list without
\* its last / first element; an empty list stays empty.
Pop(s) == IF s = <<>> THEN s ELSE SubSeq(s, 1, Len(s) - 1)

Shift(s) == IF s = <<>> THEN s ELSE SubSeq(s, 2, Len(s))

\* Array.prototype.at(0) and at(-1) on a non-empty list.
AtFirst(s) == s[1]

\* AtLast written at(0).
AtLastIsFirst(s) == s[1]

AtLast(s) == s[Len(s)]

\* String.prototype.startsWith.
StartsWith(s, prefix) ==
  Len(s) >= Len(prefix) /\ SubSeq(s, 1, Len(prefix)) = prefix

RECURSIVE Join(_, _)
\* Array.prototype.join on a list of strings.
Join(strs, sep) ==
  IF strs = <<>> THEN ""
  ELSE IF Len(strs) = 1 THEN strs[1]
  ELSE strs[1] \o sep \o Join(Tail(strs), sep)

---------------------------------------------------------------------------
(* The collaborators, which live outside this file. *)

\* stringifyTokens(tokens, field, separator): the named field of every token,
\* joined by the separator.
StringifyTokens(hp, toks, fieldName, sep) ==
  Join([i \in 1..Len(toks) |-> hp[toks[i]][fieldName]], sep)

\* What a lookup call can come back with: a definition, none, or a rejection.
LookupAnswers == {"present", "absent", "failed"}

\* What an enrichment call can come back with.
EnrichAnswers == {"ok", "failed"}

\* tokensAddDefinition on the one-element list: the token with its definition.
TokensAddDefinition(hp, list) ==
  [hp EXCEPT ![list[1]].definition = <<"definition">>]

\* tokensAddRank on the one-element list: the token with its rank.
TokensAddRank(hp, list) ==
  [hp EXCEPT ![list[1]].rank = <<"rank">>]

---------------------------------------------------------------------------
(* The scan: lines 38-64. *)

\* tokens[i] for a 0-based index i is an element (not undefined).
Defined(toks, i) == i >= 0 /\ i < Len(toks)

\* tokens[i] for a 0-based index i.
TokenAt(toks, i) == toks[i + 1]

\* Line 42: token.pos && token.pos.startsWith && token.pos.startsWith('VB').
IsVerb(tok) == tok.pos # "" /\ StartsWith(tok.pos, "VB")

\* StoreVerb that keeps a verb already pending.
StoreVerbKeepFirst(hp, toks, vi, c) ==
  IF IsVerb(hp[TokenAt(toks, c)]) /\ vi = -1 THEN c ELSE vi

\* Lines 42-44: the verb index after the token at position c was looked at.
StoreVerb(hp, toks, vi, c) ==
  IF IsVerb(hp[TokenAt(toks, c)]) THEN c ELSE vi

\* IsTrigger without the look at the next token: every RP closes.
IsTriggerNoLookahead(hp, toks, vi, c) ==
  /\ vi # -1
  /\ hp[TokenAt(toks, c)].pos \in {"RP", "IN"}

\* Line 52: the token at position c closes the window of the pending verb.
IsTrigger(hp, toks, vi, c) ==
  LET token == hp[TokenAt(toks, c)]
      nextDefined == Defined(toks, c + 1)
  IN  /\ vi # -1
      /\ \/ /\ token.pos = "RP"
            /\ (~nextDefined \/ hp[TokenAt(toks, c + 1)].pos # "IN")
         \/ token.pos = "IN"

\* Lines 53-64: [verb, token], or [verb, prev, token] for RP + IN.
Candidate(hp, toks, vi, c) ==
  LET verb == TokenAt(toks, vi)
      token == TokenAt(toks, c)
      withPrev == /\ hp[token].pos = "IN"
                  /\ Defined(toks, c - 1)
                  /\ hp[TokenAt(toks, c - 1)].pos = "RP"
  IN  <<verb>> \o (IF withPrev THEN <<TokenAt(toks, c - 1)>> ELSE <<>>) \o <<token>>

\* ContextFilter with the filter left out.
ContextFilterNone(hp, cand, verb) == cand

\* Line 67: keep the tokens of the verb's context.
ContextFilter(hp, cand, verb) ==
  SelectSeq(cand, LAMBDA t : hp[t].contextId = hp[verb].contextId)

\* CandidateSurvives with the test length > 1 written length > 0.
CandidateSurvivesAlone(filtered) == Len(filtered) > 0

\* Line 70: the filtered candidate is still a phrase.
CandidateSurvives(filtered) == Len(filtered) > 1

\* Confirmed with the test left out.
ConfirmedAlways(answer) == TRUE

\* Line 76: if (definition).
Confirmed(answer) == answer = "present"

---------------------------------------------------------------------------
(* The merge: lines 77-124. *)

\* ExtractCount without the + 1: the verb stays in the buffer.
ExtractCountShort(c, vi) == c - vi

\* Line 79: how many tokens are taken back from the output buffer.
ExtractCount(c, vi) == c - vi + 1

\* Lines 78-81, the list: n times extractedTokens.unshift(result.pop()).
\* A pop of an empty list yields undefined, written 0 here.
Extracted(res, n) ==
  LET k == Min(n, Len(res))
  IN  [i \in 1..(n - k) |-> 0] \o SubSeq(res, Len(res) - k + 1, Len(res))

\* Lines 78-81, the buffer that is left.
AfterExtract(res, n) == SubSeq(res, 1, Len(res) - Min(n, Len(res)))

\* Lines 83-99: the compound token object.
CompoundToken(hp, pvt, lemma, token, opts) ==
  [ value |-> StringifyTokens(hp, pvt, "value", " "),
    tag |-> "word",
    normal |-> StringifyTokens(hp, pvt, "normal", " "),
    pos |-> hp[pvt[1]].pos,
    lemma |-> lemma,
    contextId |-> hp[token].contextId,
    tokens |-> pvt,
    startOffset |-> IF opts.withOffset THEN hp[AtFirst(pvt)].startOffset ELSE <<>>,
    endOffset |-> IF opts.withOffset THEN hp[AtLast(pvt)].endOffset ELSE <<>>,
    frequency |-> <<>>, definition |-> <<>>, rank |-> <<>> ]

\* RecordOccurrence recording the new length of the buffer, not length - 1.
RecordOccurrenceLength(freq, lemma, idx) ==
  IF \E k \in 1..Len(freq) : freq[k].lemma = lemma
  THEN [k \in 1..Len(freq) |->
          IF freq[k].lemma = lemma
          THEN [freq[k] EXCEPT !.count = @ + 1, !.indices = Append(@, idx + 1)]
          ELSE freq[k]]
  ELSE Append(freq, [lemma |-> lemma, count |-> 1, indices |-> <<idx + 1>>])

\* Lines 107-111: one more occurrence of the lemma, at buffer index idx.
RecordOccurrence(freq, lemma, idx) ==
  IF \E k \in 1..Len(freq) : freq[k].lemma = lemma
  THEN [k \in 1..Len(freq) |->
          IF freq[k].lemma = lemma
          THEN [freq[k] EXCEPT !.count = @ + 1, !.indices = Append(@, idx)]
          ELSE freq[k]]
  ELSE Append(freq, [lemma |-> lemma, count |-> 1, indices |-> <<idx>>])

\* PushAll putting the compound token in front of the buffer.
UnshiftAll(res, list) == list \o res

\* Line 106: result.push(...phrasalVerbToken).
PushAll(res, list) == res \o list

\* Reinserted with the removal of the phrase's own tokens forgotten.
ReinsertedWhole(extracted, pvt) ==
  IF Len(extracted) # Len(pvt) THEN extracted ELSE <<>>

\* Lines 113-124: the object tokens that go back behind the compound token.
Reinserted(extracted, pvt) ==
  IF Len(extracted) # Len(pvt)
  THEN LET noVerb == Shift(extracted)
           noLast == Pop(noVerb)
       IN  IF Len(pvt) = 3 THEN Pop(noLast) ELSE noLast
  ELSE <<>>

---------------------------------------------------------------------------
(* The frequency pass: lines 136-144. *)

RECURSIVE StampIndices(_, _, _, _)
\* Lines 139-141: result[index].frequency = count for every recorded index.
StampIndices(hp, res, indices, count) ==
  IF indices = <<>> THEN hp
  ELSE StampIndices([hp EXCEPT ![res[indices[1] + 1]].frequency = <<count>>],
                    res, Tail(indices), count)

RECURSIVE StampFrequencyFromOne(_, _, _)
\* StampFrequency with the test count > 1 written count > 0.
StampFrequencyFromOne(hp, res, freq) ==
  IF freq = <<>> THEN hp
  ELSE StampFrequencyFromOne(
         IF freq[1].count > 0
         THEN StampIndices(hp, res, freq[1].indices, freq[1].count)
         ELSE hp,
         res, Tail(freq))

RECURSIVE StampFrequencyEverywhere(_, _, _)
\* StampFrequency stamping every buffer entry instead of the recorded ones.
StampFrequencyEverywhere(hp, res, freq) ==
  IF freq = <<>> THEN hp
  ELSE StampFrequencyEverywhere(
         IF freq[1].count > 1
         THEN StampIndices(hp, res, [i \in 1..Len(res) |-> i - 1], freq[1].count)
         ELSE hp,
         res, Tail(freq))

RECURSIVE StampFrequency(_, _, _)
\* Lines 137-143: every lemma counted more than once stamps its indices.
StampFrequency(hp, res, freq) ==
  IF freq = <<>> THEN hp
  ELSE StampFrequency(
         IF freq[1].count > 1
         THEN StampIndices(hp, res, freq[1].indices, freq[1].count)
         ELSE hp,
         res, Tail(freq))

\* Line 140 throws a TypeError when a recorded index is not in the buffer.
StampThrows(res, freq) ==
  \E k \in 1..Len(freq) :
    /\ freq[k].count > 1
    /\ \E j \in 1..Len(freq[k].indices) : ~Defined(res, freq[k].indices[j])

---------------------------------------------------------------------------
(* The state after the call, before the first loop iteration. *)

InitWith(words, contexts, maxLen, optionSets) ==
  \E n \in 0..maxLen :
    \E ws \in [1..n -> words], cs \in [1..n -> contexts], opts \in optionSets :
      /\ heap = [i \in 1..n |-> InputToken(ws[i], cs[i], i)]
      /\ tokens = [i \in 1..n |-> i]
      /\ options = opts
      /\ result = <<>>
      /\ frequency = <<>>
      /\ currentTokenIndex = 0
      /\ verbIndex = -1
      /\ phrasalVerbTokens = <<>>
      /\ phrasalVerbLemma = ""
      /\ extractedTokens = <<>>
      /\ phrasalVerbToken = <<>>
      /\ pc = "scan"
      /\ returned = "none"
      /\ calls = <<>>
      /\ triggers = <<>>
      /\ merges = <<>>
      /\ pass = 1
      /\ parked = <<>>

Init == InitWith(Words, Contexts, MaxLen, OptionSets)

\* The option objects of the concurrent calls: everything on, or only offsets.
TwinOptionSets ==
  { [ wordsRank |-> "table", withDefinitions |-> TRUE,
      skipDefinitionPointers |-> TRUE, withOffset |-> TRUE, withFrequency |-> TRUE ],
    [ wordsRank |-> "null", withDefinitions |-> FALSE,
      skipDefinitionPointers |-> TRUE, withOffset |-> TRUE, withFrequency |-> FALSE ] }

\* Lines 27-36 and 53-83: everything a call declares with const or let in
\* its own body, with its parameters and its place in the code.
Frame ==
  [ tokens |-> tokens, options |-> options, result |-> result,
    frequency |-> frequency, currentTokenIndex |-> currentTokenIndex,
    verbIndex |-> verbIndex, phrasalVerbTokens |-> phrasalVerbTokens,
    phrasalVerbLemma |-> phrasalVerbLemma, extractedTokens |-> extractedTokens,
    phrasalVerbToken |-> phrasalVerbToken, pc |-> pc, returned |-> returned,
    calls |-> calls, triggers |-> triggers, merges |-> merges, pass |-> pass ]

\* The locals of a call that has been made but has not run yet.
FreshFrame(toks, opts) ==
  [ tokens |-> toks, options |-> opts, result |-> <<>>,
    frequency |-> <<>>, currentTokenIndex |-> 0,
    verbIndex |-> -1, phrasalVerbTokens |-> <<>>,
    phrasalVerbLemma |-> "", extractedTokens |-> <<>>,
    phrasalVerbToken |-> <<>>, pc |-> "scan", returned |-> "none",
    calls |-> <<>>, triggers |-> <<>>, merges |-> <<>>, pass |-> 1 ]

\* Two calls on two token lists of their own, made by one caller with one
\* options object: the first is running, the second waits for the first to
\* reach an await.
InitTwin ==
  \E n \in 0..MaxTwinLen, m \in 0..MaxTwinLen :
    \E ws \in [1..n -> TwinWords], xs \in [1..m -> TwinWords],
       opts \in TwinOptionSets :
      /\ heap = [i \in 1..(n + m) |->
                   IF i <= n THEN InputToken(ws[i], 1, i)
                             ELSE InputToken(xs[i - n], 1, i - n)]
      /\ tokens = [i \in 1..n |-> i]
      /\ options = opts
      /\ result = <<>>
      /\ frequency = <<>>
      /\ currentTokenIndex = 0
      /\ verbIndex = -1
      /\ phrasalVerbTokens = <<>>
      /\ phrasalVerbLemma = ""
      /\ extractedTokens = <<>>
      /\ phrasalVerbToken = <<>>
      /\ pc = "scan"
      /\ returned = "none"
      /\ calls = <<>>
      /\ triggers = <<>>
      /\ merges = <<>>
      /\ pass = 1
      /\ parked = FreshFrame([i \in 1..m |-> n + i], opts)

InitLong == InitWith(LongWords, {1}, MaxLongLen, LongOptionSets)

---------------------------------------------------------------------------
(* Suspension and failure. *)

\* A collaborator call is made and awaited: the function is suspended at
\* the call until it resolves.
Await(cl, name, arg, where) ==
  /\ calls' = Append(cl, [name |-> name, arg |-> arg, at |-> currentTokenIndex,
                          answer |-> "pending"])
  /\ pc' = where
  /\ currentTokenIndex' = currentTokenIndex

\* IssueLookup with the await forgotten: the call is made and the loop goes on.
IssueLookupNoAwait(lemma, pos) ==
  /\ calls' = Append(calls, [name |-> "lookup", arg |-> <<lemma, pos>>,
                             at |-> currentTokenIndex, answer |-> "pending"])
  /\ pc' = "scan"
  /\ currentTokenIndex' = currentTokenIndex + 1

\* Line 75: await lookup(phrasalVerbLemma, { pos }).
IssueLookup(lemma, pos) == Await(calls, "lookup", <<lemma, pos>>, "lookup")

\* Rejected with the rejection swallowed (a catch that goes on).
RejectedSwallowed(answer) == FALSE

\* An awaited call that rejects throws at the await; nothing catches it, so
\* the promise of the pass rejects.
Rejected(answer) == answer = "failed"

Throw(cl) ==
  /\ pc' = "failed"
  /\ returned' = "error"
  /\ calls' = cl
  /\ UNCHANGED <<heap, tokens, options, result, frequency, currentTokenIndex,
                 verbIndex, phrasalVerbTokens, phrasalVerbLemma, extractedTokens,
                 phrasalVerbToken, triggers, merges, pass, parked>>

\* The calls with the outstanding one answered.
Answered(answer) == [calls EXCEPT ![Len(calls)].answer = answer]

---------------------------------------------------------------------------
(* One loop iteration, lines 38-75 and 128-133, up to the lookup if one is made. *)

Scan ==
  /\ pc = "scan"
  /\ currentTokenIndex < Len(tokens)
  /\ LET c == currentTokenIndex
         token == TokenAt(tokens, c)
         pushed == Append(result, token)
         vi == StoreVerb(heap, tokens, verbIndex, c)
     IN  /\ result' = pushed
         /\ IF IsTrigger(heap, tokens, vi, c)
            THEN LET verb == TokenAt(tokens, vi)
                     cand == Candidate(heap, tokens, vi, c)
                     filtered == ContextFilter(heap, cand, verb)
                     lemma == StringifyTokens(heap, filtered, "lemma", " ")
                 IN  /\ triggers' = Append(triggers,
                            [at |-> c, verb |-> vi, candidate |-> cand,
                             filtered |-> filtered, buffer |-> pushed])
                     /\ IF CandidateSurvives(filtered)
                        THEN /\ IssueLookup(lemma, heap[filtered[1]].pos)
                             /\ verbIndex' = vi
                             /\ phrasalVerbTokens' = filtered
                             /\ phrasalVerbLemma' = lemma
                        ELSE /\ verbIndex' = -1
                             /\ currentTokenIndex' = c + 1
                             /\ UNCHANGED <<pc, calls, phrasalVerbTokens,
                                            phrasalVerbLemma>>
            ELSE /\ verbIndex' = vi
                 /\ currentTokenIndex' = c + 1
                 /\ UNCHANGED <<pc, calls, triggers, phrasalVerbTokens,
                                phrasalVerbLemma>>
  /\ UNCHANGED <<heap, tokens, options, frequency, extractedTokens,
                 phrasalVerbToken, returned, merges, pass, parked>>

---------------------------------------------------------------------------
(* The merge, lines 76-133, cut at its two awaits. *)

\* Lines 106-133: the compound goes into the buffer, the occurrence is
\* recorded, the objects go back, the iteration ends.
FinishMerge(res, hp, list, ext, cl) ==
  LET pushed == PushAll(res, list)
      length == Len(pushed)
      after == pushed \o Reinserted(ext, phrasalVerbTokens)
  IN  /\ result' = after
      /\ heap' = hp
      /\ frequency' = RecordOccurrence(frequency, phrasalVerbLemma, length - 1)
      /\ merges' = Append(merges,
             [verb |-> verbIndex, at |-> currentTokenIndex, compound |-> list,
              filtered |-> phrasalVerbTokens, extracted |-> ext,
              index |-> length - 1, buffer |-> after])
      /\ verbIndex' = -1
      /\ currentTokenIndex' = currentTokenIndex + 1
      /\ pc' = "scan"
      /\ calls' = cl
      /\ phrasalVerbTokens' = <<>>
      /\ phrasalVerbLemma' = ""
      /\ extractedTokens' = <<>>
      /\ phrasalVerbToken' = <<>>
      /\ UNCHANGED <<tokens, options, returned, triggers, pass, parked>>

\* Lines 100-105: suspended at an enrichment call.
Enrich(res, hp, list, ext, cl, name, where) ==
  /\ Await(cl, name, list, where)
  /\ result' = res
  /\ heap' = hp
  /\ extractedTokens' = ext
  /\ phrasalVerbToken' = list
  /\ UNCHANGED <<tokens, options, frequency, verbIndex, phrasalVerbTokens,
                 phrasalVerbLemma, returned, triggers, merges, pass, parked>>

\* Lines 100-106: from the point reached ("built": line 99, "defined":
\* line 102, "ranked": line 105) to the next await or to the end of the merge.
Continue(from, res, hp, list, ext, cl) ==
  IF from = "built" /\ options.withDefinitions
  THEN Enrich(res, hp, list, ext, cl, "addDefinition", "addDefinition")
  ELSE IF from # "ranked" /\ options.wordsRank # "null"
  THEN Enrich(res, hp, list, ext, cl, "addRank", "addRank")
  ELSE FinishMerge(res, hp, list, ext, cl)

\* Lines 75-99 and 128-133: the lookup resolves.
LookupResolve ==
  /\ pc = "lookup"
  /\ \E answer \in LookupAnswers :
       LET cl == Answered(answer)
       IN  IF Rejected(answer) THEN Throw(cl)
           ELSE IF Confirmed(answer)
           THEN LET n == ExtractCount(currentTokenIndex, verbIndex)
                    ext == Extracted(result, n)
                    res == AfterExtract(result, n)
                    token == TokenAt(tokens, currentTokenIndex)
                    hp == Append(heap, CompoundToken(heap, phrasalVerbTokens,
                                        phrasalVerbLemma, token, options))
                IN  Continue("built", res, hp, <<Len(hp)>>, ext, cl)
           ELSE /\ verbIndex' = -1
                /\ currentTokenIndex' = currentTokenIndex + 1
                /\ pc' = "scan"
                /\ calls' = cl
                /\ phrasalVerbTokens' = <<>>
                /\ phrasalVerbLemma' = ""
                /\ UNCHANGED <<heap, tokens, options, result, frequency,
                               extractedTokens, phrasalVerbToken, returned,
                               triggers, merges, pass, parked>>

\* Line 101: tokensAddDefinition resolves.
AddDefinitionResolve ==
  /\ pc = "addDefinition"
  /\ \E answer \in EnrichAnswers :
       LET cl == Answered(answer)
       IN  IF Rejected(answer) THEN Throw(cl)
           ELSE Continue("defined", result,
                         TokensAddDefinition(heap, phrasalVerbToken),
                         phrasalVerbToken, extractedTokens, cl)

\* Line 104: tokensAddRank resolves.
AddRankResolve ==
  /\ pc = "addRank"
  /\ \E answer \in EnrichAnswers :
       LET cl == Answered(answer)
       IN  IF Rejected(answer) THEN Throw(cl)
           ELSE Continue("ranked", result,
                         TokensAddRank(heap, phrasalVerbToken),
                         phrasalVerbToken, extractedTokens, cl)

---------------------------------------------------------------------------
(* The end of the loop, lines 136-146. *)

Finish ==
  /\ pc = "scan"
  /\ currentTokenIndex >= Len(tokens)
  /\ IF options.withFrequency /\ StampThrows(result, frequency)
     THEN Throw(calls)
     ELSE /\ heap' = IF options.withFrequency
                     THEN StampFrequency(heap, result, frequency)
                     ELSE heap
          /\ pc' = "done"
          /\ returned' = "value"
          /\ UNCHANGED <<tokens, options, result, frequency, currentTokenIndex,
                         verbIndex, phrasalVerbTokens, phrasalVerbLemma,
                         extractedTokens, phrasalVerbToken, calls, triggers,
                         merges, pass, parked>>

\* The caller runs the pass again on the sequence it got back.
Rerun ==
  /\ pc = "done"
  /\ pass < MaxPasses
  /\ tokens' = result
  /\ result' = <<>>
  /\ frequency' = <<>>
  /\ currentTokenIndex' = 0
  /\ verbIndex' = -1
  /\ pc' = "scan"
  /\ returned' = "none"
  /\ calls' = <<>>
  /\ triggers' = <<>>
  /\ merges' = <<>>
  /\ pass' = pass + 1
  /\ UNCHANGED <<heap, options, phrasalVerbTokens, phrasalVerbLemma,
                 extractedTokens, phrasalVerbToken, parked>>

\* Resume with the frequency table kept in the module, shared by all calls.
ResumeSharedFrequency(fr) ==
  /\ tokens' = fr.tokens
  /\ options' = fr.options
  /\ result' = fr.result
  /\ frequency' = frequency
  /\ currentTokenIndex' = fr.currentTokenIndex
  /\ verbIndex' = fr.verbIndex
  /\ phrasalVerbTokens' = fr.phrasalVerbTokens
  /\ phrasalVerbLemma' = fr.phrasalVerbLemma
  /\ extractedTokens' = fr.extractedTokens
  /\ phrasalVerbToken' = fr.phrasalVerbToken
  /\ pc' = fr.pc
  /\ returned' = fr.returned
  /\ calls' = fr.calls
  /\ triggers' = fr.triggers
  /\ merges' = fr.merges
  /\ pass' = fr.pass

\* Lines 27-36: a call that continues finds its parameters and every local
\* as it left them, because each call declares them anew in its own body.
Resume(fr) ==
  /\ tokens' = fr.tokens
  /\ options' = fr.options
  /\ result' = fr.result
  /\ frequency' = fr.frequency
  /\ currentTokenIndex' = fr.currentTokenIndex
  /\ verbIndex' = fr.verbIndex
  /\ phrasalVerbTokens' = fr.phrasalVerbTokens
  /\ phrasalVerbLemma' = fr.phrasalVerbLemma
  /\ extractedTokens' = fr.extractedTokens
  /\ phrasalVerbToken' = fr.phrasalVerbToken
  /\ pc' = fr.pc
  /\ returned' = fr.returned
  /\ calls' = fr.calls
  /\ triggers' = fr.triggers
  /\ merges' = fr.merges
  /\ pass' = fr.pass

\* Lines 75, 101, 104: while one call is suspended at an await, or after it
\* has settled, the event loop runs the other call, which is not finished.
Switch ==
  /\ parked # <<>>
  /\ pc \in {"lookup", "addDefinition", "addRank", "done", "failed"}
  /\ parked.pc \notin {"done", "failed"}
  /\ Resume(parked)
  /\ parked' = Frame
  /\ UNCHANGED heap

---------------------------------------------------------------------------
(* Specifications. *)

Next ==
  \/ Scan
  \/ LookupResolve
  \/ AddDefinitionResolve
  \/ AddRankResolve
  \/ Finish

NextRerun ==
  \/ Scan
  \/ LookupResolve
  \/ AddDefinitionResolve
  \/ AddRankResolve
  \/ Finish
  \/ Rerun

\* one run, inputs of two contexts
Spec == Init /\ [][Next]_vars

\* one run, longer inputs of one context
SpecLong == InitLong /\ [][Next]_vars

\* the pass run again on its own output
SpecRerun == Init /\ [][NextRerun]_vars

\* one run, both families of inputs
SpecBoth == (Init \/ InitLong) /\ [][Next]_vars

NextTwin ==
  \/ Scan
  \/ LookupResolve
  \/ AddDefinitionResolve
  \/ AddRankResolve
  \/ Finish
  \/ Switch

\* two runs interleaved at their awaits
SpecTwin == InitTwin /\ [][NextTwin]_vars

---------------------------------------------------------------------------
(* Helpers of the properties. *)

Range(s) == {s[i] : i \in 1..Len(s)}

\* s ends with the list t.
EndsWith(s, t) ==
  Len(s) >= Len(t) /\ SubSeq(s, Len(s) - Len(t) + 1, Len(s)) = t

\* The input span tokens[v..c] (0-based, inclusive).
Span(v, c) == SubSeq(tokens, v + 1, c + 1)

\* The trigger that a merge answers.
TriggerOf(m) == CHOOSE t \in Range(triggers) : t.at = m.at

\* The references of the compound tokens.
Compounds == {id \in DOMAIN heap : heap[id].tokens # <<>>}

---------------------------------------------------------------------------
(* C1 *)

\* C1: the returned sequence has at most as many tokens as the input, and
\* the buffer after a confirmed merge is no longer than it was at the trigger
\* (the compound and the objects put back take no more room than the span).
C1_OutputNoLonger ==
  /\ returned = "value" => Len(result) <= Len(tokens)
  /\ \A m \in Range(merges) :
       Len(m.buffer) <= Len(TriggerOf(m).buffer)

\* A run returned after a merge that put an object token back.
C1_Witness ==
  /\ returned = "value"
  /\ \E m \in Range(merges) : Len(m.extracted) > Len(m.filtered)
  /\ Len(result) < Len(tokens)

---------------------------------------------------------------------------
(* C2 *)

\* C2: every compound token has 2 or 3 constituents, the first is the
\* pending verb, and every constituent has the verb's contextId.
C2_CompoundConstituents ==
  \A id \in Compounds :
    LET ct == heap[id].tokens
    IN  /\ Len(ct) \in {2, 3}
        /\ \A k \in 1..Len(ct) : heap[ct[k]].contextId = heap[ct[1]].contextId
        /\ \/ \E m \in Range(merges) :
                m.compound = <<id>> /\ ct[1] = TokenAt(tokens, m.verb)
           \/ /\ pc \in {"addDefinition", "addRank", "failed"}
              /\ phrasalVerbToken = <<id>>
              /\ ct[1] = TokenAt(tokens, verbIndex)

\* A compound was made of a candidate that lost a token to the context filter.
C2_Witness ==
  \E m \in Range(merges) :
    /\ Len(TriggerOf(m).candidate) = 3
    /\ Len(heap[m.compound[1]].tokens) = 2

---------------------------------------------------------------------------
(* C3 *)

\* C3: right after a confirmed merge the buffer ends with the compound
\* token followed by the tokens of the span tokens[v..c] that are not in the
\* filtered candidate, in their input order.
C3_ObjectsReinserted ==
  \A m \in Range(merges) :
    EndsWith(m.buffer,
             m.compound \o SelectSeq(Span(m.verb, m.at),
                                     LAMBDA t : t \notin Range(m.filtered)))

---------------------------------------------------------------------------
(* C4 *)

\* How many merges of this run made a compound with the lemma.
MergedTimes(lemma) ==
  Cardinality({i \in 1..Len(merges) : heap[merges[i].compound[1]].lemma = lemma})

\* C4: with withFrequency, when the pass has returned, a compound whose lemma
\* was merged k >= 2 times has frequency k and one merged once has none;
\* a frequency is never below 2.
C4_FrequencyIsCount ==
  /\ (returned = "value" /\ options.withFrequency) =>
       \A m \in Range(merges) :
         LET tok == heap[m.compound[1]]
             k == MergedTimes(tok.lemma)
         IN  tok.frequency = IF k >= 2 THEN <<k>> ELSE <<>>
  /\ \A id \in DOMAIN heap :
       heap[id].frequency # <<>> => heap[id].frequency[1] >= 2

\* A run returned with one lemma merged twice and stamped 2, one of the
\* merges having put an object token back behind its compound.
C4_Witness ==
  /\ returned = "value"
  /\ options.withFrequency
  /\ \E m \in Range(merges) : heap[m.compound[1]].frequency = <<2>>
  /\ \E m \in Range(merges) : Len(m.extracted) > Len(m.filtered)

---------------------------------------------------------------------------
(* C5 *)

\* C5: in a run on the output of a previous run no compound token is the
\* verb of a candidate and none is a constituent of a compound token.
C5_CompoundsOpaque ==
  pass >= 2 =>
    /\ \A t \in Range(triggers) : heap[TokenAt(tokens, t.verb)].tokens = <<>>
    /\ \A id \in Compounds :
         \A k \in 1..Len(heap[id].tokens) : heap[heap[id].tokens[k]].tokens = <<>>

---------------------------------------------------------------------------
(* C6 *)

\* Every lookup of the run so far came back without a definition.
AllLookupsAbsent ==
  \A i \in 1..Len(calls) : calls[i].name = "lookup" /\ calls[i].answer = "absent"

\* C6: a lookup that returns no definition leaves buffer, tokens and
\* occurrence map as they were and the scan goes on with the next token; a
\* run whose lookups all return no definition returns its input unchanged.
C6_AbsentKeepsTokens ==
  /\ [][(pc = "lookup" /\ calls'[Len(calls)].answer = "absent") =>
          /\ result' = result
          /\ heap' = heap
          /\ frequency' = frequency
          /\ merges' = merges
          /\ pc' = "scan"
          /\ currentTokenIndex' = currentTokenIndex + 1]_vars
  /\ []((returned = "value" /\ AllLookupsAbsent) =>
          /\ result = tokens
          /\ heap = [i \in 1..Len(tokens) |-> heap[i]]
          /\ \A i \in 1..Len(tokens) : heap[i].frequency = <<>>)

\* A run returned after a lookup, and all its lookups were answered absent.
C6_Witness ==
  /\ returned = "value"
  /\ calls # <<>>
  /\ AllLookupsAbsent

---------------------------------------------------------------------------
(* C7 *)

\* The token at the scan position closes the window and no other token of the
\* candidate is in the verb's context.
ForeignTrigger ==
  /\ pc = "scan"
  /\ currentTokenIndex < Len(tokens)
  /\ LET vi == StoreVerb(heap, tokens, verbIndex, currentTokenIndex)
     IN  /\ IsTrigger(heap, tokens, vi, currentTokenIndex)
         /\ LET cand == Candidate(heap, tokens, vi, currentTokenIndex)
            IN  \A k \in 2..Len(cand) :
                  heap[cand[k]].contextId # heap[cand[1]].contextId

\* C7: when the context filter leaves only the verb, the trigger makes no
\* lookup call and no merge, only appends the token to the buffer, and clears
\* the pending verb.
C7_ForeignCandidateDropped ==
  [][ForeignTrigger =>
       /\ calls' = calls
       /\ merges' = merges
       /\ heap' = heap
       /\ frequency' = frequency
       /\ result' = Append(result, TokenAt(tokens, currentTokenIndex))
       /\ verbIndex' = -1
       /\ pc' = "scan"]_vars

\* A three-token candidate was cut down to the verb and the scan went on.
C7_Witness ==
  \E t \in Range(triggers) :
    /\ Len(t.candidate) = 3
    /\ Len(t.filtered) = 1
    /\ currentTokenIndex > t.at
    /\ \A i \in 1..Len(calls) : calls[i].at # t.at

---------------------------------------------------------------------------
(* C8 *)

Outstanding == {i \in 1..Len(calls) : calls[i].answer = "pending"}

\* C8: at most one collaborator call is outstanding, and while one is, the
\* scan stands at the position of the call: no later token is in the buffer
\* and none was evaluated as a trigger.
C8_OneCallScanWaits ==
  /\ Cardinality(Outstanding) <= 1
  /\ \A i \in Outstanding :
       /\ i = Len(calls)
       /\ pc = calls[i].name
       /\ currentTokenIndex = calls[i].at
       /\ verbIndex <= calls[i].at
       /\ \A r \in Range(result) :
            r \in Compounds \/ \E j \in 1..(calls[i].at + 1) : tokens[j] = r
       /\ \A t \in Range(triggers) : t.at <= calls[i].at

\* A lookup is outstanding after an earlier call, with tokens still to scan.
C8_Witness ==
  /\ pc = "lookup"
  /\ Outstanding = {Len(calls)}
  /\ Len(calls) >= 2
  /\ currentTokenIndex + 1 < Len(tokens)

---------------------------------------------------------------------------
(* C9 *)

\* C9: a failed collaborator call is the last call of the run, the scan
\* stays at its position and the caller gets the failure and no sequence.
C9_FailureAborts ==
  /\ \A i \in 1..Len(calls) :
       calls[i].answer = "failed" =>
         /\ i = Len(calls)
         /\ pc = "failed"
         /\ returned = "error"
         /\ currentTokenIndex = calls[i].at
         /\ \A t \in Range(triggers) : t.at <= calls[i].at
  /\ pc = "failed" => returned = "error"
  /\ returned = "value" => pc = "done"

\* An enrichment call failed while tokens were still to scan.
C9_Witness ==
  /\ pc = "failed"
  /\ calls[Len(calls)].name = "addRank"
  /\ calls[Len(calls)].answer = "failed"
  /\ currentTokenIndex + 1 < Len(tokens)

---------------------------------------------------------------------------
(* C10 *)

\* C10: no step changes the input list or an input token; a compound token
\* keeps its constituents, and once in the buffer it keeps its place there.
C10_InputUntouched ==
  [][/\ tokens' = tokens
     /\ \A id \in Range(tokens) : heap'[id] = heap[id]
     /\ \A id \in Compounds :
          /\ id \in DOMAIN heap'
          /\ heap'[id].tokens = heap[id].tokens
     /\ \A i \in 1..Len(result) :
          result[i] \in Compounds => (i <= Len(result') /\ result'[i] = result[i])
    ]_vars

\* The frequency pass stamped two compounds of a buffer that also holds
\* input tokens, after a later merge took tokens back from the buffer.
C10_Witness ==
  /\ returned = "value"
  /\ options.withFrequency
  /\ Len(merges) >= 2
  /\ \E id \in Compounds : heap[id].frequency # <<>>
  /\ \E r \in Range(result) : r \in Range(tokens)

---------------------------------------------------------------------------
(* C11 *)

\* C11: with withOffset a compound token's startOffset is that of the first
\* element of its tokens list and its endOffset that of the last; without
\* withOffset it has neither field.
C11_CompoundOffsets ==
  \A id \in Compounds :
    LET ct == heap[id].tokens
    IN  IF options.withOffset
        THEN /\ heap[id].startOffset = heap[ct[1]].startOffset
             /\ heap[id].endOffset = heap[ct[Len(ct)]].endOffset
             /\ heap[id].startOffset # <<>>
             /\ heap[id].endOffset # <<>>
        ELSE /\ heap[id].startOffset = <<>>
             /\ heap[id].endOffset = <<>>

\* A three-token compound with offsets is in the returned sequence.
C11_Witness ==
  /\ returned = "value"
  /\ options.withOffset
  /\ \E i \in 1..Len(result) :
       /\ Len(heap[result[i]].tokens) = 3
       /\ heap[result[i]].startOffset # <<>>

---------------------------------------------------------------------------
(* C12 *)

\* The function is suspended inside the merge of a closing trigger.
InTrigger == pc \in {"lookup", "addDefinition", "addRank"}

\* C12: a token tagged VB... makes its own position the pending verb,
\* whatever was pending; a closing trigger leaves no verb pending once its
\* iteration ends, whatever the outcome; any other token leaves the pending
\* verb as it is.  So every trigger has a pending verb before it, and no
\* verb position is the verb of two candidates.
C12_MatcherState ==
  /\ [][/\ (pc = "scan" /\ currentTokenIndex < Len(tokens)) =>
             IF StartsWith(heap[TokenAt(tokens, currentTokenIndex)].pos, "VB")
             THEN verbIndex' = currentTokenIndex /\ triggers' = triggers
             ELSE triggers' = triggers => verbIndex' = verbIndex
        /\ ((triggers' # triggers \/ InTrigger) /\ pc' = "scan") =>
             verbIndex' = -1
        /\ (InTrigger /\ pc' # "scan") => verbIndex' = verbIndex
       ]_vars
  /\ [](/\ \A i \in 1..Len(triggers) :
             /\ triggers[i].verb >= 0
             /\ triggers[i].verb < triggers[i].at
             /\ StartsWith(heap[TokenAt(tokens, triggers[i].verb)].pos, "VB")
        /\ \A i, j \in 1..Len(triggers) :
             i < j => triggers[i].at < triggers[j].verb)

\* A second verb replaced the pending one, a trigger closed on it with a
\* merge, and no verb is pending.
C12_Witness ==
  /\ pc = "scan"
  /\ verbIndex = -1
  /\ \E m \in Range(merges) :
       /\ m.verb >= 1
       /\ currentTokenIndex = m.at + 1
       /\ \E i \in 0..(m.verb - 1) :
            /\ StartsWith(heap[TokenAt(tokens, i)].pos, "VB")
            /\ \A t \in Range(triggers) : t.at > m.verb

---------------------------------------------------------------------------
(* C13 *)

\* The tag of the input token at 0-based position i, "" when there is none.
TagAt(i) ==
  IF i >= 0 /\ i < Len(tokens) THEN heap[tokens[i + 1]].pos ELSE ""

\* The lemmas of the tokens of the list toks, with one space between them.
Phrase(toks) ==
  IF Len(toks) = 2
  THEN heap[toks[1]].lemma \o " " \o heap[toks[2]].lemma
  ELSE heap[toks[1]].lemma \o " " \o heap[toks[2]].lemma \o " " \o heap[toks[3]].lemma

\* The tokens of a candidate that are in the context of its verb.
InVerbContext(cand) ==
  SelectSeq(cand, LAMBDA t : heap[t].contextId = heap[cand[1]].contextId)

\* With a verb pending at v, the token at c closes the window exactly when
\* it is RP and the next token is absent or not IN, or when it is IN; the
\* candidate is [verb, token], or [verb, previous, token] for an IN whose
\* predecessor is RP; a token that does not close makes no call.
ClosesAsStated ==
  (pc = "scan" /\ currentTokenIndex < Len(tokens)) =>
    LET c == currentTokenIndex
        v == verbIndex
        closes == /\ v # -1
                  /\ \/ TagAt(c) = "RP" /\ TagAt(c + 1) # "IN"
                     \/ TagAt(c) = "IN"
        expected == IF TagAt(c) = "IN" /\ TagAt(c - 1) = "RP"
                    THEN <<tokens[v + 1], tokens[c], tokens[c + 1]>>
                    ELSE <<tokens[v + 1], tokens[c + 1]>>
    IN  IF closes
        THEN /\ Len(triggers') = Len(triggers) + 1
             /\ triggers'[Len(triggers')].at = c
             /\ triggers'[Len(triggers')].verb = v
             /\ triggers'[Len(triggers')].candidate = expected
        ELSE triggers' = triggers /\ calls' = calls

\* No lookup is made at an RP that is followed by IN, and every lookup is
\* made at a closing trigger.
NoLookupAtParticleBeforePreposition ==
  \A i \in 1..Len(calls) :
    calls[i].name = "lookup" =>
      /\ ~(TagAt(calls[i].at) = "RP" /\ TagAt(calls[i].at + 1) = "IN")
      /\ \E t \in Range(triggers) : t.at = calls[i].at

\* C13 as stated: the closing condition and the unfiltered candidate as
\* above, an RP followed by IN makes no lookup, and for verb+RP+IN only
\* the three-token phrase is looked up: every lookup made at a trigger with
\* the candidate [verb, RP, IN] asks for the phrase of these three tokens.
C13_OnlyThreeTokenPhrase ==
  /\ [][ClosesAsStated]_vars
  /\ [](/\ NoLookupAtParticleBeforePreposition
        /\ \A i \in 1..Len(calls) : \A t \in Range(triggers) :
             (calls[i].name = "lookup" /\ t.at = calls[i].at /\ Len(t.candidate) = 3)
             => calls[i].arg[1] = Phrase(t.candidate))

\* C13, amended: the closing condition and the unfiltered candidate as
\* above, and an RP followed by IN makes no lookup.  The phrase looked up at
\* a trigger is that of the candidate's tokens in the verb's context: for
\* verb+RP+IN the three-token phrase when all three are in one context, the
\* two-token phrase of the verb and the remaining token when one of RP and
\* IN is in another context, and no lookup when both are.
C13_TriggerAndCandidate ==
  /\ [][ClosesAsStated]_vars
  /\ [](/\ NoLookupAtParticleBeforePreposition
        /\ \A i \in 1..Len(calls) : \A t \in Range(triggers) :
             (calls[i].name = "lookup" /\ t.at = calls[i].at)
             => /\ Len(InVerbContext(t.candidate)) >= 2
                /\ calls[i].arg[1] = Phrase(InVerbContext(t.candidate))
        /\ \A t \in Range(triggers) :
             Len(InVerbContext(t.candidate)) < 2
             => \A i \in 1..Len(calls) :
                  calls[i].name = "lookup" => calls[i].at # t.at)

\* A verb and a particle of one context and a preposition of another: the
\* particle closed nothing, the preposition closed with the candidate of all
\* three, and the lookup made there asked for the phrase of verb and particle.
C13_Witness ==
  \E t \in Range(triggers) :
    /\ Len(t.candidate) = 3
    /\ InVerbContext(t.candidate) = <<t.candidate[1], t.candidate[2]>>
    /\ \A u \in Range(triggers) : u.at >= t.at
    /\ \E i \in 1..Len(calls) :
         /\ calls[i].name = "lookup" /\ calls[i].at = t.at
         /\ calls[i].arg[1] = Phrase(<<t.candidate[1], t.candidate[2]>>)

---------------------------------------------------------------------------
(* C14 *)

\* C14: at every closing trigger the buffer ends with the input tokens from
\* the pending verb to the trigger, in order, and a confirmed merge takes
\* exactly these tokens back: no compound token and no token before the verb.
C14_TailIsRawSpan ==
  /\ \A t \in Range(triggers) : EndsWith(t.buffer, Span(t.verb, t.at))
  /\ \A m \in Range(merges) :
       /\ m.extracted = Span(m.verb, m.at)
       /\ Len(m.extracted) = m.at - m.verb + 1
       /\ \A x \in Range(m.extracted) : heap[x].tokens = <<>>
       /\ TriggerOf(m).buffer =
            SubSeq(m.buffer, 1, Len(TriggerOf(m).buffer) - Len(m.extracted))
              \o m.extracted

\* A merge after an earlier merge that had put an object token back: the
\* buffer was already shorter than the input and reordered.
C14_Witness ==
  \E i, j \in 1..Len(merges) :
    /\ i < j
    /\ Len(merges[i].extracted) > Len(merges[i].filtered)
    /\ Len(TriggerOf(merges[j]).buffer) < merges[j].at + 1

---------------------------------------------------------------------------
(* C17 *)

\* How often the token is in the buffer: as an entry of its own or as a
\* constituent of a compound entry.
Occurrences(id) ==
  Cardinality({i \in 1..Len(result) : result[i] = id})
  + Cardinality({p \in (1..Len(result)) \X (1..3) :
                   /\ p[2] <= Len(heap[result[p[1]]].tokens)
                   /\ heap[result[p[1]]].tokens[p[2]] = id})

\* C17: when the pass returns, every input token is in the output exactly
\* once, as a token of its own or as a constituent of one compound token.
C17_TokensConserved ==
  returned = "value" => \A id \in Range(tokens) : Occurrences(id) = 1

---------------------------------------------------------------------------
(* C18 *)

\* C18: a compound token's contextId is the contextId of its constituents,
\* the verb's.
C18_CompoundContext ==
  \A id \in Compounds :
    heap[id].contextId = heap[heap[id].tokens[1]].contextId

---------------------------------------------------------------------------
(* C19 *)

\* C19: at every point of the scan and at its end, the buffer entry at a
\* recorded index is the compound token with that lemma that the merge
\* recording the index appended; so a frequency is only ever on compounds.
C19_RecordedIndicesValid ==
  /\ \A k \in 1..Len(frequency) :
       /\ frequency[k].count = Len(frequency[k].indices)
       /\ \A j \in 1..Len(frequency[k].indices) :
            LET idx == frequency[k].indices[j]
            IN  /\ idx >= 0 /\ idx < Len(result)
                /\ heap[result[idx + 1]].tokens # <<>>
                /\ heap[result[idx + 1]].lemma = frequency[k].lemma
                /\ \E m \in Range(merges) :
                     m.index = idx /\ m.compound = <<result[idx + 1]>>
  /\ \A id \in DOMAIN heap : heap[id].frequency # <<>> => heap[id].tokens # <<>>

\* Two merges of one lemma were stamped; the first had put an object token
\* back and the second took tokens back from the buffer behind it.
C19_Witness ==
  /\ returned = "value"
  /\ \E k \in 1..Len(frequency) : frequency[k].count >= 2
  /\ \E id \in Compounds : heap[id].frequency # <<>>
  /\ \E i, j \in 1..Len(merges) :
       i < j /\ Len(merges[i].extracted) > Len(merges[i].filtered)

---------------------------------------------------------------------------
(* Helpers of the properties about two calls. *)

\* The lookup calls of a call's history, in the order they were made.
Lookups(fr) == SelectSeq(fr.calls, LAMBDA c : c.name = "lookup")

\* The merge of call fr that built the compound token id.
MergeOf(fr, id) == CHOOSE m \in Range(fr.merges) : m.compound = <<id>>

\* The compound tokens of call fr.
CompoundsOf(fr) == {m.compound[1] : m \in Range(fr.merges)}

\* What a caller sees of the token id: its fields, with the constituents of
\* a compound token by their fields instead of by reference.
View(id) ==
  [heap[id] EXCEPT !.tokens = [k \in 1..Len(@) |-> heap[@[k]]]]

\* Two calls were given equal token lists and equal options.
SameInput(f, g) ==
  /\ f.options = g.options
  /\ Len(f.tokens) = Len(g.tokens)
  /\ \A i \in 1..Len(f.tokens) : View(f.tokens[i]) = View(g.tokens[i])

\* The collaborators gave two calls the same answers, call by call.
SameAnswers(f, g) ==
  \A k \in 1..Min(Len(f.calls), Len(g.calls)) :
    /\ f.calls[k].name = g.calls[k].name
    /\ f.calls[k].answer = g.calls[k].answer

\* Two calls returned sequences that are equal token by token.
SameOutput(f, g) ==
  /\ Len(f.result) = Len(g.result)
  /\ \A i \in 1..Len(f.result) : View(f.result[i]) = View(g.result[i])

\* Two calls on equal input with equal answers that have both returned have
\* returned equal sequences.
SameRunSameOutput ==
  (/\ parked # <<>>
   /\ returned = "value" /\ parked.returned = "value"
   /\ SameInput(Frame, parked) /\ SameAnswers(Frame, parked))
  => SameOutput(Frame, parked)

\* The lookups of call fr were made at strictly increasing trigger positions.
LookupsInScanOrder(fr) ==
  \A i, j \in 1..Len(Lookups(fr)) :
    i < j => Lookups(fr)[i].at < Lookups(fr)[j].at

\* The compound tokens of call fr stand in its buffer in the order of their verbs.
CompoundsInVerbOrder(fr) ==
  \A i, j \in 1..Len(fr.result) :
    (/\ i < j
     /\ fr.result[i] \in CompoundsOf(fr)
     /\ fr.result[j] \in CompoundsOf(fr))
    => MergeOf(fr, fr.result[i]).verb < MergeOf(fr, fr.result[j]).verb

---------------------------------------------------------------------------
(* C15 *)

\* C15: the lookup calls of a run are made at strictly increasing trigger
\* positions, each at a trigger the scan has seen; the compound tokens stand
\* in the buffer, and so in the returned sequence, in the order in which
\* their verbs stand in the input; and two runs on equal input that got equal
\* answers return equal sequences.
C15_ScanOrderDeterministic ==
  /\ LookupsInScanOrder(Frame)
  /\ \A c \in Range(Lookups(Frame)) : \E t \in Range(triggers) : t.at = c.at
  /\ CompoundsInVerbOrder(Frame)
  /\ SameRunSameOutput

\* Two runs on equal input with equal answers have both returned, each with
\* two compound tokens in its sequence, after two lookups each.
C15_Witness ==
  /\ parked # <<>>
  /\ returned = "value" /\ parked.returned = "value"
  /\ SameInput(Frame, parked) /\ SameAnswers(Frame, parked)
  /\ Len(Lookups(Frame)) >= 2
  /\ Cardinality(CompoundsOf(Frame) \cap Range(result)) >= 2
  /\ Cardinality(CompoundsOf(parked) \cap Range(parked.result)) >= 2

---------------------------------------------------------------------------
(* C16 *)

\* The token objects that belong to call fr: its input, its buffer, and the
\* compound token it is building.
Owned(fr) ==
  Range(fr.tokens) \cup Range(fr.result) \cup Range(fr.phrasalVerbToken)

\* How often call fr has merged the lemma.
OwnMerges(fr, lemma) ==
  Cardinality({i \in 1..Len(fr.merges) :
                 heap[fr.merges[i].compound[1]].lemma = lemma})

\* The occurrence map of call fr counts the merges of fr and no others, and
\* the frequencies stamped when fr returns are those counts.
CountsOwnMerges(fr) ==
  /\ \A k \in 1..Len(fr.frequency) :
       fr.frequency[k].count = OwnMerges(fr, fr.frequency[k].lemma)
  /\ (fr.returned = "value" /\ fr.options.withFrequency) =>
       \A id \in CompoundsOf(fr) :
         LET k == OwnMerges(fr, heap[id].lemma)
         IN  heap[id].frequency = IF k >= 2 THEN <<k>> ELSE <<>>

\* A step leaves the suspended call alone: either it is the switch, which
\* hands the suspended call exactly the locals it was suspended with and
\* suspends the running call with its own, or it is a step of the running
\* call, which changes neither the locals nor the token objects of the other.
LeavesOtherAlone ==
  parked # <<>> =>
    IF parked' # parked
    THEN Frame' = parked /\ parked' = Frame /\ heap' = heap
    ELSE \A id \in Owned(parked) : id \in DOMAIN heap' /\ heap'[id] = heap[id]

\* C16: two calls on token lists of their own, interleaved at their awaits,
\* do not interfere: no step of one changes the buffer, the pending verb
\* index, the occurrence map or the tokens of the other, a call that goes on
\* finds its locals as it left them, each call's occurrence map and stamped
\* frequencies count its own merges only, and the calls return what their
\* own input and answers determine.
C16_CallsDoNotInterfere ==
  /\ [][LeavesOtherAlone]_vars
  /\ [](/\ parked # <<>> => CountsOwnMerges(parked)
        /\ CountsOwnMerges(Frame)
        /\ parked # <<>> => Owned(Frame) \cap Owned(parked) = {}
        /\ SameRunSameOutput)

\* Both calls have returned with frequencies on, each having merged the same
\* lemma twice, and their merges alternated: a compound token of one was
\* built between the two of the other (references are handed out in order).
C16_Witness ==
  /\ parked # <<>>
  /\ returned = "value" /\ parked.returned = "value"
  /\ options.withFrequency /\ parked.options.withFrequency
  /\ \E k \in 1..Len(frequency) : frequency[k].count = 2
  /\ \E k \in 1..Len(parked.frequency) :
       /\ parked.frequency[k].count = 2
       /\ parked.frequency[k].lemma \in {frequency[j].lemma : j \in 1..Len(frequency)}
  /\ \E a, c \in CompoundsOf(Frame), b \in CompoundsOf(parked) : a < b /\ b < c

====
